---- MODULE Spec2Model ----
(***************************************************************************)
(* Model of the product-page parser of backend/app/web/amazon.py.           *)
(*                                                                         *)
(* A parser instance holds a parsed document (soup), an optional product   *)
(* name and a logger.  Each parse_product_* method is a probe over the      *)
(* document: it returns a value or None, appends records to the log, or    *)
(* leaves through a Python exception.  Text is a sequence of one-character *)
(* strings, a number is an exact decimal fraction or the float infinity.   *)
(***************************************************************************)
EXTENDS Integers, Sequences, FiniteSets, TLC

\* ------------------------------------------------------------------------
\* Bounds of the model
\* ------------------------------------------------------------------------
MaxPriceLen == 4
MaxCouponLen == 5
MaxParses == 3
MaxBodyOps == 3
MaxCalls == 2

\* ------------------------------------------------------------------------
\* Characters and text
\* ------------------------------------------------------------------------
Digits == {"0", "1", "2", "3", "4", "5", "6", "7", "8", "9"}

IsDigit(c) == c \in Digits

DigitVal(c) ==
  CASE c = "0" -> 0 [] c = "1" -> 1 [] c = "2" -> 2 [] c = "3" -> 3
    [] c = "4" -> 4 [] c = "5" -> 5 [] c = "6" -> 6 [] c = "7" -> 7
    [] c = "8" -> 8 [] c = "9" -> 9

IsSpace(c) == c = " "

Min(S) == CHOOSE x \in S : \A y \in S : x <= y

Max(S) == CHOOSE x \in S : \A y \in S : x >= y

\* str.strip(): drop the leading and the trailing whitespace
Strip(s) ==
  LET keep == {i \in 1..Len(s) : ~IsSpace(s[i])}
  IN  IF keep = {} THEN <<>> ELSE SubSeq(s, Min(keep), Max(keep))

\* Tag.get_text(strip=True): every text node of the element is stripped,
\* the empty ones are dropped and the rest is joined with no separator
RECURSIVE get_text(_)
get_text(strings) ==
  IF strings = <<>> THEN <<>>
  ELSE Strip(Head(strings)) \o get_text(Tail(strings))

\* str.replace(old, ""), for a one-character old
Replace(s, old) == SelectSeq(s, LAMBDA c : c # old)

Count(s, ch) == Cardinality({i \in 1..Len(s) : s[i] = ch})

\* All sequences over S of length 0..n
SeqsUpTo(S, n) == UNION {[1..k -> S] : k \in 0..n}

\* ------------------------------------------------------------------------
\* float(str) on a string of digits and periods
\* ------------------------------------------------------------------------
\* A decimal string with at least this many significant integer digits is
\* above the largest double (1.797...e308) and float() returns inf for it.
InfDigits == 310

Inf == [inf |-> TRUE, num |-> 0, den |-> 1]

RECURSIVE DigitsToNat(_)
DigitsToNat(ds) ==
  IF ds = <<>> THEN 0
  ELSE DigitsToNat(SubSeq(ds, 1, Len(ds) - 1)) * 10 + DigitVal(ds[Len(ds)])

RECURSIVE Pow10(_)
Pow10(k) == IF k = 0 THEN 1 ELSE 10 * Pow10(k - 1)

\* The digits of ds without its leading zeros
SignificantDigits(ds) ==
  LET nz == {i \in 1..Len(ds) : ds[i] # "0"}
  IN  IF nz = {} THEN <<>> ELSE SubSeq(ds, Min(nz), Len(ds))

\* The digits of ds without its trailing zeros
DropTrailingZeros(ds) ==
  LET nz == {i \in 1..Len(ds) : ds[i] # "0"}
  IN  IF nz = {} THEN <<>> ELSE SubSeq(ds, 1, Max(nz))

\* float(s) for s without spaces, signs, exponents or underscores: ValueError
\* unless s is digits with at most one period and at least one digit;
\* otherwise the value, as the
\* fraction num/den in lowest decimal form, or inf when it overflows a double.
PyFloat(s) ==
  IF \/ \E i \in 1..Len(s) : ~IsDigit(s[i]) /\ s[i] # "."
     \/ Count(s, ".") > 1
     \/ \A i \in 1..Len(s) : ~IsDigit(s[i])
  THEN [ok |-> FALSE, val |-> Inf]
  ELSE LET dot   == IF Count(s, ".") = 0 THEN Len(s) + 1
                    ELSE CHOOSE i \in 1..Len(s) : s[i] = "."
           ipart == SignificantDigits(SubSeq(s, 1, dot - 1))
           fpart == DropTrailingZeros(SubSeq(s, dot + 1, Len(s)))
       IN  IF Len(ipart) >= InfDigits
           THEN [ok |-> TRUE, val |-> Inf]
           ELSE [ok |-> TRUE,
                 val |-> [inf |-> FALSE,
                          num |-> DigitsToNat(ipart \o fpart),
                          den |-> Pow10(Len(fpart))]]

\* ------------------------------------------------------------------------
\* The parsed document, as the results of the lookups the probes make
\* ------------------------------------------------------------------------
NoNode == [found |-> FALSE, strings |-> <<>>]

Node(strings) == [found |-> TRUE, strings |-> strings]

\* ------------------------------------------------------------------------
\* Outcomes of a probe and log records
\* ------------------------------------------------------------------------
NotCalled == [tag |-> "notcalled"]

RetNone == [tag |-> "none"]

Ret(v) == [tag |-> "value", val |-> v]

Raise(e) == [tag |-> "raised", exc |-> e]

\* f"for {self.user_product_name}" or "": the f-string is never empty, so
\* the argument is always "for <name>", with <name> = None when unset
ForName(name) == <<"for", name>>

NoArgs == <<>>

LogRecord(level, function, msg, args) ==
  [level |-> level, function |-> function, msg |-> msg, args |-> args]

\* ------------------------------------------------------------------------
\* parse_product_title
\* ------------------------------------------------------------------------
\* a parse_product_title that is silent about a missing title
parse_product_title_silent(doc, name) ==
  LET title_tag == doc.title_feature_div
  IN  IF title_tag.found
      THEN [ret |-> Ret(get_text(title_tag.strings)), logs |-> <<>>]
      ELSE [ret |-> RetNone, logs |-> <<>>]

\* a parse_product_title that falls back to the caller's product name
parse_product_title_uses_name(doc, name) ==
  LET title_tag == doc.title_feature_div
  IN  IF title_tag.found
      THEN [ret |-> Ret(get_text(title_tag.strings)), logs |-> <<>>]
      ELSE IF name # "None"
      THEN [ret |-> Ret(<<name>>), logs |-> <<>>]
      ELSE [ret |-> RetNone,
            logs |-> <<LogRecord("WARNING", "parse_product_title",
                                 "Product title not found %s", ForName(name))>>]

parse_product_title(doc, name) ==
  LET title_tag == doc.title_feature_div
  IN  IF title_tag.found
      THEN [ret |-> Ret(get_text(title_tag.strings)), logs |-> <<>>]
      ELSE [ret |-> RetNone,
            logs |-> <<LogRecord("WARNING", "parse_product_title",
                                 "Product title not found %s", ForName(name))>>]

\* ------------------------------------------------------------------------
\* parse_product_price
\* ------------------------------------------------------------------------
IsPriceChar(c) == IsDigit(c) \/ c = "," \/ c = "."

\* re.search(r"[\d,.]+", text): the leftmost, longest run of digits, commas
\* and periods
PriceSearch(text) ==
  LET hits == {i \in 1..Len(text) : IsPriceChar(text[i])}
  IN  IF hits = {} THEN [matched |-> FALSE, group |-> <<>>]
      ELSE LET s == Min(hits)
               e == Max({j \in s..Len(text) :
                          \A k \in s..j : IsPriceChar(text[k])})
           IN  [matched |-> TRUE, group |-> SubSeq(text, s, e)]

\* a PriceStr that forgets the thousands separators
PriceStrKeepsCommas(group) == group

PriceStr(group) == Replace(group, ",")

PriceNotFound(name) ==
  LogRecord("WARNING", "parse_product_price", "Product price not found %s",
            ForName(name))

parse_product_price(doc, name) ==
  LET price_element == doc.corePrice_feature_div
  IN  IF ~price_element.found
      THEN [ret |-> RetNone, logs |-> <<PriceNotFound(name)>>]
      ELSE
      LET price_text_tag == price_element.offscreen
      IN  IF ~price_text_tag.found
          THEN [ret |-> RetNone, logs |-> <<PriceNotFound(name)>>]
          ELSE
          LET price_text  == get_text(price_text_tag.strings)
              price_match == PriceSearch(price_text)
          IN  IF price_match.matched
              THEN LET f == PyFloat(PriceStr(price_match.group))
                   IN  IF f.ok
                       THEN [ret |-> Ret(f.val), logs |-> <<>>]
                       ELSE [ret |-> RetNone,
                             logs |-> <<LogRecord("ERROR", "parse_product_price",
                                          "Failed to convert price to float %s",
                                          ForName(name))>>]
              ELSE [ret |-> RetNone, logs |-> <<PriceNotFound(name)>>]

\* ------------------------------------------------------------------------
\* parse_product_seller
\* ------------------------------------------------------------------------
NoOffer == [found |-> FALSE, span |-> NoNode]

\* an offer-feature element and the text span inside it
Offer(span) == [found |-> TRUE, span |-> span]

NoSellerContainer == [found |-> FALSE, fulfiller |-> NoOffer, merchant |-> NoOffer]

NoBuyBox == [found |-> FALSE, offer |-> NoSellerContainer]

SellerWarning(msg) == LogRecord("WARNING", "parse_product_seller", msg, NoArgs)

\* "x if x else None" on a string: the empty string becomes None
TextOrNone(data) ==
  IF data = <<>> THEN [some |-> FALSE, text |-> <<>>]
  ELSE [some |-> TRUE, text |-> data]

parse_product_seller(doc) ==
  LET container_element == doc.desktop_qualifiedBuyBox
      seller_container  == container_element.offer
      ships_from_element == seller_container.fulfiller
      sold_by_element    == seller_container.merchant
      \* log records of lines 72-73 and 80-81
      shipsLog == IF ~ships_from_element.found
                  THEN <<SellerWarning("Ships from element not found in the HTML content.")>>
                  ELSE <<>>
      soldLog  == IF ~sold_by_element.found
                  THEN <<SellerWarning("Sold by element not found in the HTML content.")>>
                  ELSE <<>>
      ships_from_data == get_text(ships_from_element.span.strings)
      sold_by_data    == get_text(sold_by_element.span.strings)
  IN  IF ~container_element.found
      THEN [ret |-> RetNone,
            logs |-> <<SellerWarning("Container element not found in the HTML content.")>>]
      ELSE IF ~seller_container.found
      THEN [ret |-> RetNone,
            logs |-> <<SellerWarning("Seller container not found in the HTML content.")>>]
      \* lines 76-78: find(...) gave None and None has no get_text
      ELSE IF ships_from_element.found /\ ~ships_from_element.span.found
      THEN [ret |-> Raise("AttributeError"), logs |-> shipsLog]
      \* lines 84-86
      ELSE IF sold_by_element.found /\ ~sold_by_element.span.found
      THEN [ret |-> Raise("AttributeError"), logs |-> shipsLog \o soldLog]
      ELSE IF ~ships_from_element.found /\ ~sold_by_element.found
      THEN [ret |-> RetNone,
            logs |-> shipsLog \o soldLog \o
              <<SellerWarning("Neither ships from nor sold by elements found in the HTML content.")>>]
      \* lines 94-97: a local that was never assigned is read
      ELSE IF ~ships_from_element.found \/ ~sold_by_element.found
      THEN [ret |-> Raise("UnboundLocalError"), logs |-> shipsLog \o soldLog]
      ELSE [ret |-> Ret([ships_from |-> TextOrNone(ships_from_data),
                         sold_by    |-> TextOrNone(sold_by_data)]),
            logs |-> shipsLog \o soldLog]

\* ------------------------------------------------------------------------
\* parse_product_image
\* ------------------------------------------------------------------------
NoImageContainer == [found |-> FALSE, imgs |-> <<>>]

\* an img element: whether it has a src attribute, and its value
Img(has_src, src) == [has_src |-> has_src, src |-> src]

\* a parse_product_image that is silent about a missing container
parse_product_image_silent(doc, name) ==
  LET image_container == doc.imgTagWrapperId
  IN  IF ~image_container.found
      THEN [ret |-> RetNone, logs |-> <<>>]
      ELSE IF image_container.imgs = <<>> \/ ~Head(image_container.imgs).has_src
      THEN [ret |-> RetNone,
            logs |-> <<LogRecord("WARNING", "parse_product_image",
                         "Product image tag not found %s", ForName(name))>>]
      ELSE [ret |-> Ret(Head(image_container.imgs).src), logs |-> <<>>]

parse_product_image(doc, name) ==
  LET image_container == doc.imgTagWrapperId
  IN  IF ~image_container.found
      THEN [ret |-> RetNone,
            logs |-> <<LogRecord("WARNING", "parse_product_image",
                         "Product image container not found %s", ForName(name))>>]
      \* find("img") is the first img element of the container
      ELSE IF image_container.imgs = <<>> \/ ~Head(image_container.imgs).has_src
      THEN [ret |-> RetNone,
            logs |-> <<LogRecord("WARNING", "parse_product_image",
                         "Product image tag not found %s", ForName(name))>>]
      ELSE [ret |-> Ret(Head(image_container.imgs).src), logs |-> <<>>]

\* ------------------------------------------------------------------------
\* check_coupon_type
\* ------------------------------------------------------------------------
\* the character at position i, or the empty string outside the text
At(text, i) == IF i \in 1..Len(text) THEN text[i] ELSE ""

\* end of the longest run of digits that starts at i (text[i] is a digit)
DigitRunEnd(text, i) ==
  Max({j \in i..Len(text) : \A k \in i..j : IsDigit(text[k])})

NoMatch == [matched |-> FALSE, group |-> <<>>]

\* re.search(r"\$(\d+(?:\.\d{1,2})?)", text): group 1 of the leftmost match.
\* Nothing follows the group in the pattern, so each greedy part takes all
\* it can: every digit, then a period with one or two digits when present.
FixedSearch(text) ==
  LET starts == {i \in 1..Len(text) : text[i] = "$" /\ IsDigit(At(text, i + 1))}
  IN  IF starts = {} THEN NoMatch
      ELSE LET i == Min(starts)
               j == DigitRunEnd(text, i + 1)
               e == IF At(text, j + 1) = "." /\ IsDigit(At(text, j + 2))
                    THEN (IF IsDigit(At(text, j + 3)) THEN j + 3 ELSE j + 2)
                    ELSE j
           IN  [matched |-> TRUE, group |-> SubSeq(text, i + 1, e)]

\* Where a match of (\d+(?:\.\d{1,2})?)% that starts at i ends its group, or
\* 0 when there is none: the digits must run up to the "%" or up to a period
\* with one or two digits and then the "%".
PercentGroupEnd(text, i) ==
  IF ~IsDigit(At(text, i)) THEN 0
  ELSE LET j == DigitRunEnd(text, i)
       IN  IF At(text, j + 1) = "%" THEN j
           ELSE IF At(text, j + 1) = "." /\ IsDigit(At(text, j + 2))
                   /\ IsDigit(At(text, j + 3)) /\ At(text, j + 4) = "%"
           THEN j + 3
           ELSE IF At(text, j + 1) = "." /\ IsDigit(At(text, j + 2))
                   /\ At(text, j + 3) = "%"
           THEN j + 2
           ELSE 0

\* re.search(r"(\d+(?:\.\d{1,2})?)%", text): group 1 of the leftmost match
PercentSearch(text) ==
  LET starts == {i \in 1..Len(text) : PercentGroupEnd(text, i) # 0}
  IN  IF starts = {} THEN NoMatch
      ELSE LET i == Min(starts)
           IN  [matched |-> TRUE, group |-> SubSeq(text, i, PercentGroupEnd(text, i))]

\* float() of a matched group with no range check
CouponAmount(group) == PyFloat(group).val

\* a check_coupon_type that tries the percentage pattern first
check_coupon_type_percent_first(text) ==
  LET fixed_amount_match == FixedSearch(text)
      percent_match      == PercentSearch(text)
  IN  IF percent_match.matched
      THEN [some |-> TRUE, type |-> "percentage",
            amount |-> CouponAmount(percent_match.group)]
      ELSE IF fixed_amount_match.matched
      THEN [some |-> TRUE, type |-> "fixed",
            amount |-> CouponAmount(fixed_amount_match.group)]
      ELSE [some |-> FALSE, type |-> "", amount |-> Inf]

\* Optional[Tuple[str, float]]: some = FALSE is None
check_coupon_type(text) ==
  LET fixed_amount_match == FixedSearch(text)
      percent_match      == PercentSearch(text)
  IN  IF fixed_amount_match.matched
      THEN [some |-> TRUE, type |-> "fixed",
            amount |-> CouponAmount(fixed_amount_match.group)]
      ELSE IF percent_match.matched
      THEN [some |-> TRUE, type |-> "percentage",
            amount |-> CouponAmount(percent_match.group)]
      ELSE [some |-> FALSE, type |-> "", amount |-> Inf]

\* ------------------------------------------------------------------------
\* parse_product_coupon
\* ------------------------------------------------------------------------
NoCoupon == [found |-> FALSE, label |-> NoNode, strings |-> <<>>]

\* the coupon container: its label span and the text nodes in it
Coupon(label, strings) == [found |-> TRUE, label |-> label, strings |-> strings]

\* Python truth value of a float
FloatIsZero(f) == ~f.inf /\ f.num = 0

\* a coupon_message that reads the whole container even with a label in it
coupon_message_whole_container(coupon_element) ==
  get_text(coupon_element.strings \o coupon_element.label.strings)

\* lines 148-154: the text of the label span, else of the whole container
coupon_message(coupon_element) ==
  LET coupon_message_element == coupon_element.label
  IN  IF ~coupon_message_element.found
      THEN get_text(coupon_element.strings)
      ELSE get_text(coupon_message_element.strings)

\* a parse_product_coupon that reports a missing container as a warning
parse_product_coupon_warns(doc, name) ==
  LET coupon_element == doc.promoPriceBlockMessage_feature_div
      message == coupon_message(coupon_element)
      parsed_discount == check_coupon_type(message)
  IN  IF ~coupon_element.found
      THEN [ret |-> RetNone,
            logs |-> <<LogRecord("WARNING", "parse_product_coupon",
                         "No coupon found %s", ForName(name))>>,
            calls |-> <<>>]
      ELSE IF ~parsed_discount.some
      THEN [ret |-> Raise("TypeError"), logs |-> <<>>, calls |-> <<message>>]
      ELSE [ret |-> Ret([type |-> parsed_discount.type,
                         amount |-> parsed_discount.amount]),
            logs |-> <<>>, calls |-> <<message>>]

\* calls: the texts handed to check_coupon_type, in order
parse_product_coupon(doc, name) ==
  LET coupon_element == doc.promoPriceBlockMessage_feature_div
      message == coupon_message(coupon_element)
      parsed_discount == check_coupon_type(message)
  IN  IF ~coupon_element.found
      THEN [ret |-> RetNone,
            logs |-> <<LogRecord("INFO", "parse_product_coupon",
                         "No coupon found %s", ForName(name))>>,
            calls |-> <<>>]
      \* line 159: "type, discount = None" cannot be unpacked
      ELSE IF ~parsed_discount.some
      THEN [ret |-> Raise("TypeError"), logs |-> <<>>, calls |-> <<message>>]
      ELSE IF parsed_discount.type = "" /\ FloatIsZero(parsed_discount.amount)
      THEN [ret |-> RetNone,
            logs |-> <<LogRecord("WARNING", "parse_product_coupon",
                         "Unable to determine coupon type %s", ForName(name))>>,
            calls |-> <<message>>]
      ELSE [ret |-> Ret([type |-> parsed_discount.type,
                         amount |-> parsed_discount.amount]),
            logs |-> <<>>, calls |-> <<message>>]

\* ------------------------------------------------------------------------
\* The parser instance and its callers
\* ------------------------------------------------------------------------
VARIABLES soup, user_product_name, result, log

\* the texts this parser instance handed to check_coupon_type
VARIABLES classified

\* what the first parser instance of the process was given and what it
\* returned and logged, and the number of instances constructed so far
VARIABLES earlier, parses

\* state of the process outside the parser instances: a call of
\* make_request, a use of get_db_session, the module-level _engine, the
\* number of create_engine calls and the threads inside get_engine
VARIABLES request, session, engine, created, threads

\* the settings of the application process, the database named by
\* SETTINGS.DATABASE, which outlives the processes, and the position of the
\* application in its lifespan
VARIABLES SETTINGS, database, app

startupVars == <<SETTINGS, database, app>>

beyondParser == <<request, session, engine, created, threads, startupVars>>

\* class Settings: the defaults of the fields the startup reads
DefaultSettings ==
  [ENV |-> "development", ADMIN_USER |-> "admin@email.com",
   ADMIN_PASSWORD |-> "securepassword123"]

\* a database on which create_all has not run yet
NoDatabase == [tables |-> FALSE, users_table |-> <<>>]

\* no application process has been started
Stopped == [pc |-> "stopped", startups |-> 0, logs |-> <<>>]

StartupIdle ==
  /\ SETTINGS = DefaultSettings
  /\ database = NoDatabase
  /\ app = Stopped

\* Optional[List[str]]: some = FALSE is None
NoList == [some |-> FALSE, list |-> <<>>]

List(l) == [some |-> TRUE, list |-> l]

NoResponse == [some |-> FALSE, status |-> 0]

\* a requests.Response and its status code
Response(status) == [some |-> TRUE, status |-> status]

IdleRequest ==
  [pc |-> "idle", url |-> "", proxy_servers |-> NoList, user_agents |-> NoList,
   user_agent |-> "", proxy |-> "", got |-> NoResponse, ret |-> NoResponse,
   caught |-> "", logs |-> <<>>]

IdleSession == [pc |-> "idle", calls |-> <<>>, raised |-> ""]

\* the threads of the process that may call get_engine
NumThreads == 2

Threads == 1..NumThreads

IdleThread == [pc |-> "idle", new |-> 0, returned |-> <<>>]

\* _engine: Optional[Engine] = None
NoEngine == 0

BeyondParserIdle ==
  /\ request = IdleRequest
  /\ session = IdleSession
  /\ engine = NoEngine
  /\ created = 0
  /\ threads = [t \in Threads |-> IdleThread]
  /\ StartupIdle

vars == <<soup, user_product_name, result, log, classified, earlier, parses,
          beyondParser>>

Fields == {"title", "price", "image", "seller", "coupon"}

\* the document as the lookups by id of the five probes see it
Document(title, price, image, seller, coupon) ==
  [title_feature_div |-> title,
   corePrice_feature_div |-> price,
   imgTagWrapperId |-> image,
   desktop_qualifiedBuyBox |-> seller,
   promoPriceBlockMessage_feature_div |-> coupon]

NoPriceContainer == [found |-> FALSE, offscreen |-> NoNode]

\* the price container and the a-offscreen span inside it
PriceContainer(offscreen) == [found |-> TRUE, offscreen |-> offscreen]

ImageContainer(imgs) == [found |-> TRUE, imgs |-> imgs]

SellerContainer(fulfiller, merchant) ==
  [found |-> TRUE, fulfiller |-> fulfiller, merchant |-> merchant]

BuyBox(offer) == [found |-> TRUE, offer |-> offer]

\* user_product_name: Optional[str]
Names == {"None", "widget"}

\* --- texts -------------------------------------------------------------
PriceAlphabet == {"$", "0", "5", ",", ".", " ", "x"}

\* "$1,234.56"
PriceExample == <<"$", "1", ",", "2", "3", "4", ".", "5", "6">>

\* "Contact seller"
ContactSeller ==
  <<"C", "o", "n", "t", "a", "c", "t", " ", "s", "e", "l", "l", "e", "r">>

\* "1.2.3"
TwoPoints == <<"1", ".", "2", ".", "3">>

\* a run of nines too long for a double
LongDigits == [i \in 1..InfDigits |-> "9"]

PriceTexts ==
  SeqsUpTo(PriceAlphabet, MaxPriceLen)
    \cup {PriceExample, ContactSeller, TwoPoints, LongDigits, <<"-", "5">>}

PriceDocs ==
  {NoPriceContainer, PriceContainer(NoNode)}
    \cup {PriceContainer(Node(<<t>>)) : t \in PriceTexts}
    \cup {PriceContainer(Node(<<<<" ", "$", "5">>, <<"0", " ">>>>))}

CouponAlphabet == {"$", "%", "0", "1", ".", "x"}

\* "Save $10 on this item"
SaveTen ==
  <<"S", "a", "v", "e", " ", "$", "1", "0", " ", "o", "n", " ",
    "t", "h", "i", "s", " ", "i", "t", "e", "m">>

\* "15% off select items"
FifteenPercent ==
  <<"1", "5", "%", " ", "o", "f", "f", " ", "s", "e", "l", "e", "c", "t", " ",
    "i", "t", "e", "m", "s">>

\* "Limited time offer"
LimitedTime ==
  <<"L", "i", "m", "i", "t", "e", "d", " ", "t", "i", "m", "e", " ",
    "o", "f", "f", "e", "r">>

\* "$0 off"
ZeroOff == <<"$", "0", " ", "o", "f", "f">>

\* "150% off"
OneFiftyPercent == <<"1", "5", "0", "%", " ", "o", "f", "f">>

\* "$1,000 off"
ThousandOff == <<"$", "1", ",", "0", "0", "0", " ", "o", "f", "f">>

CouponTexts ==
  SeqsUpTo(CouponAlphabet, MaxCouponLen)
    \cup {SaveTen, FifteenPercent, LimitedTime, ZeroOff, OneFiftyPercent,
          ThousandOff}

CouponDocs ==
  {NoCoupon}
    \cup {Coupon(Node(<<t>>), <<>>) : t \in CouponTexts}
    \cup {Coupon(NoNode, <<t>>) :
            t \in {<<>>, SaveTen, FifteenPercent, LimitedTime, <<" ", "1", "%">>}}
    \cup {Coupon(Node(<<>>), <<SaveTen>>), Coupon(NoNode, <<>>),
          Coupon(Node(<<FifteenPercent>>), <<SaveTen>>)}

SellerTexts == {<<>>, <<" ">>, <<"A">>, <<" ", "A", " ">>}

OfferDocs == {NoOffer, Offer(NoNode)} \cup {Offer(Node(<<t>>)) : t \in SellerTexts}

SellerDocs ==
  {NoBuyBox, BuyBox(NoSellerContainer)}
    \cup {BuyBox(SellerContainer(f, m)) : f \in OfferDocs, m \in OfferDocs}

\* --- the small documents of the whole-parser specification --------------
TitleDocs == {NoNode, Node(<<<<" ", "T", " ">>>>)}

SmallPriceDocs ==
  {NoPriceContainer, PriceContainer(NoNode),
   PriceContainer(Node(<<<<"$", "5">>>>)), PriceContainer(Node(<<<<"x">>>>))}

ImageDocs ==
  {NoImageContainer, ImageContainer(<<>>), ImageContainer(<<Img(FALSE, "")>>),
   ImageContainer(<<Img(TRUE, "u")>>)}

SmallSellerDocs ==
  {NoBuyBox,
   BuyBox(SellerContainer(Offer(Node(<<<<"A">>>>)), NoOffer)),
   BuyBox(SellerContainer(Offer(Node(<<<<"A">>>>)), Offer(Node(<<<<"B">>>>))))}

SmallCouponDocs ==
  {NoCoupon, Coupon(Node(<<<<"$", "5">>>>), <<>>), Coupon(NoNode, <<<<"x">>>>)}

EmptyDocument ==
  Document(NoNode, NoPriceContainer, NoImageContainer, NoBuyBox, NoCoupon)

\* --- __init__ ------------------------------------------------------------
NoEarlier ==
  [present |-> FALSE, soup |-> EmptyDocument, name |-> "None",
   result |-> [f \in Fields |-> NotCalled], logs |-> [f \in Fields |-> <<>>]]

\* the function that serves a field
ProbeOf(field) ==
  CASE field = "title"  -> "parse_product_title"
    [] field = "price"  -> "parse_product_price"
    [] field = "image"  -> "parse_product_image"
    [] field = "seller" -> "parse_product_seller"
    [] field = "coupon" -> "parse_product_coupon"

\* the records a probe of this instance logged
LogsOf(field) == SelectSeq(log, LAMBDA rec : rec.function = ProbeOf(field))

Constructed(docs) ==
  /\ soup \in docs
  /\ user_product_name \in Names
  /\ result = [f \in Fields |-> NotCalled]
  /\ log = <<>>
  /\ classified = <<>>
  /\ earlier = NoEarlier
  /\ parses = 1
  /\ BeyondParserIdle

Init ==
  Constructed({Document(t, p, i, s, c) :
                 t \in TitleDocs, p \in SmallPriceDocs, i \in ImageDocs,
                 s \in SmallSellerDocs, c \in SmallCouponDocs})

InitPrice ==
  Constructed({[EmptyDocument EXCEPT !.corePrice_feature_div = p] : p \in PriceDocs})

InitSeller ==
  Constructed({[EmptyDocument EXCEPT !.desktop_qualifiedBuyBox = s] : s \in SellerDocs})

InitCoupon ==
  Constructed({[EmptyDocument EXCEPT !.promoPriceBlockMessage_feature_div = c] :
                 c \in CouponDocs})

\* --- one call of a probe by the owner of the parser ----------------------
\* the outcome is what the caller gets, the records go to the logger
\* a Call in which a probe gives up once an earlier probe has raised
CallGated(field, out) ==
  /\ result[field].tag = "notcalled"
  /\ result' = [result EXCEPT ![field] =
                  IF \E g \in Fields : result[g].tag = "raised"
                  THEN RetNone ELSE out.ret]
  /\ log' = log \o out.logs
  /\ classified' = classified \o (IF "calls" \in DOMAIN out THEN out.calls ELSE <<>>)
  /\ UNCHANGED <<soup, user_product_name, earlier, parses, beyondParser>>

Call(field, out) ==
  /\ result[field].tag = "notcalled"
  /\ result' = [result EXCEPT ![field] = out.ret]
  /\ log' = log \o out.logs
  /\ classified' = classified \o (IF "calls" \in DOMAIN out THEN out.calls ELSE <<>>)
  /\ UNCHANGED <<soup, user_product_name, earlier, parses, beyondParser>>

ParseProductTitle == Call("title", parse_product_title(soup, user_product_name))

ParseProductPrice == Call("price", parse_product_price(soup, user_product_name))

ParseProductSeller == Call("seller", parse_product_seller(soup))

ParseProductImage == Call("image", parse_product_image(soup, user_product_name))

ParseProductCoupon == Call("coupon", parse_product_coupon(soup, user_product_name))

\* a NewParser whose instances log into one shared list of records
NewParserSharesLog(doc, name) ==
  /\ parses < MaxParses
  /\ parses' = parses + 1
  /\ earlier' = IF earlier.present THEN earlier
                ELSE [present |-> TRUE, soup |-> soup, name |-> user_product_name,
                      result |-> result, logs |-> [f \in Fields |-> LogsOf(f)]]
  /\ soup' = doc
  /\ user_product_name' = name
  /\ result' = [f \in Fields |-> NotCalled]
  /\ log' = log
  /\ classified' = <<>>
  /\ UNCHANGED beyondParser

\* AmazonPageParser(html, name) once more in the same process: a fresh
\* instance with its own document; log and classified start anew because
\* they hold what this instance logs and classifies
NewParser(doc, name) ==
  /\ parses < MaxParses
  /\ parses' = parses + 1
  /\ earlier' = IF earlier.present THEN earlier
                ELSE [present |-> TRUE, soup |-> soup, name |-> user_product_name,
                      result |-> result, logs |-> [f \in Fields |-> LogsOf(f)]]
  /\ soup' = doc
  /\ user_product_name' = name
  /\ result' = [f \in Fields |-> NotCalled]
  /\ log' = <<>>
  /\ classified' = <<>>
  /\ UNCHANGED beyondParser

\* --- documents parsed more than once -------------------------------------
FullDocument ==
  Document(Node(<<<<" ", "T", " ">>>>),
           PriceContainer(Node(<<<<"$", "5">>>>)),
           ImageContainer(<<Img(TRUE, "u")>>),
           BuyBox(SellerContainer(Offer(Node(<<<<"A">>>>)), Offer(Node(<<<<"B">>>>)))),
           Coupon(Node(<<<<"5", "%">>>>), <<>>))

BrokenDocument ==
  Document(NoNode,
           PriceContainer(Node(<<<<"x">>>>)),
           ImageContainer(<<Img(TRUE, "u")>>),
           BuyBox(SellerContainer(Offer(Node(<<<<"A">>>>)), NoOffer)),
           Coupon(NoNode, <<<<"x">>>>))

TitleOnlyDocument == [EmptyDocument EXCEPT !.title_feature_div = Node(<<<<"T">>>>)]

RepeatedDocs == {FullDocument, BrokenDocument, TitleOnlyDocument}

InitTwice == Constructed(RepeatedDocs)

Reconstruct == \E doc \in RepeatedDocs, name \in Names : NewParser(doc, name)

NextTwice ==
  \/ ParseProductTitle
  \/ ParseProductPrice
  \/ ParseProductSeller
  \/ ParseProductImage
  \/ ParseProductCoupon
  \/ Reconstruct

SpecTwice == InitTwice /\ [][NextTwice]_vars

Next ==
  \/ ParseProductTitle
  \/ ParseProductPrice
  \/ ParseProductSeller
  \/ ParseProductImage
  \/ ParseProductCoupon

Spec == Init /\ [][Next]_vars

NextPrice == ParseProductPrice

SpecPrice == InitPrice /\ [][NextPrice]_vars

NextSeller == ParseProductSeller

SpecSeller == InitSeller /\ [][NextSeller]_vars

NextCoupon == ParseProductCoupon

SpecCoupon == InitCoupon /\ [][NextCoupon]_vars

\* ------------------------------------------------------------------------
\* Diagnostics: the warnings and errors a probe logged
\* ------------------------------------------------------------------------
IsDiagnostic(rec) == rec.level \in {"WARNING", "ERROR"}

Diagnostics(function) ==
  SelectSeq(log, LAMBDA rec : IsDiagnostic(rec) /\ rec.function = function)

\* the kind of a diagnostic, by what its message reports
DiagnosticKind(rec) ==
  IF rec.msg = "Failed to convert price to float %s" THEN "MalformedValue"
  ELSE IF rec.msg = "Unable to determine coupon type %s" THEN "ClassificationFailure"
  ELSE "MissingElement"

Called(field) == result[field].tag # "notcalled"

TypeOK ==
  /\ \A f \in Fields : result[f].tag \in {"notcalled", "none", "value", "raised"}
  /\ \A i \in 1..Len(log) : log[i].level \in {"INFO", "WARNING", "ERROR"}

\* ------------------------------------------------------------------------
\* What the claims speak about
\* ------------------------------------------------------------------------
\* the container a probe looks up first
ContainerOf(field) ==
  CASE field = "title"  -> soup.title_feature_div
    [] field = "price"  -> soup.corePrice_feature_div
    [] field = "image"  -> soup.imgTagWrapperId
    [] field = "seller" -> soup.desktop_qualifiedBuyBox
    [] field = "coupon" -> soup.promoPriceBlockMessage_feature_div

Returned(field) == result[field].tag = "value"

Absent(field) == result[field].tag = "none"

Raised(field) == result[field].tag = "raised"

\* the probe logged exactly one diagnostic and it is of this kind
OneDiagnostic(field, kind) ==
  /\ Len(Diagnostics(ProbeOf(field))) = 1
  /\ DiagnosticKind(Diagnostics(ProbeOf(field))[1]) = kind

\* the text of the price node
PriceNodeFound ==
  soup.corePrice_feature_div.found /\ soup.corePrice_feature_div.offscreen.found

PriceText == get_text(soup.corePrice_feature_div.offscreen.strings)

\* the text handed to the coupon classifier
CouponMessage ==
  LET c == soup.promoPriceBlockMessage_feature_div
  IN  IF c.label.found THEN get_text(c.label.strings) ELSE get_text(c.strings)

\* a currency symbol directly followed by a digit occurs in m
ContainsFixed(m) == \E i \in 1..Len(m) : m[i] = "$" /\ IsDigit(At(m, i + 1))

\* a digit directly followed by a percent sign occurs in m
ContainsPercent(m) == \E i \in 1..Len(m) : m[i] = "%" /\ IsDigit(At(m, i - 1))

SellerOffer == soup.desktop_qualifiedBuyBox.offer

\* ------------------------------------------------------------------------
\* C1: on every document each of the five probes completes without raising:
\* it returns a value or None.
\* ------------------------------------------------------------------------
C1_ProbesNeverRaise == \A f \in Fields : ~Raised(f)

\* ------------------------------------------------------------------------
\* C2: with a coupon container whose message matches neither pattern, coupon
\* extraction returns None, records one ClassificationFailure diagnostic and
\* does not raise.
\* ------------------------------------------------------------------------
C2_UnmatchedCouponIsClassificationFailure ==
  (/\ Called("coupon")
   /\ ContainerOf("coupon").found
   /\ ~ContainsFixed(CouponMessage)
   /\ ~ContainsPercent(CouponMessage))
  => (Absent("coupon") /\ OneDiagnostic("coupon", "ClassificationFailure"))

\* ------------------------------------------------------------------------
\* C3: with the buy box and the offer features present and exactly one of
\* the ships-from and sold-by nodes present, the seller probe returns a
\* seller with only that key populated, logs no diagnostic and does not raise.
\* ------------------------------------------------------------------------
ExactlyOneSellerNode ==
  /\ ContainerOf("seller").found
  /\ SellerOffer.found
  /\ SellerOffer.fulfiller.found # SellerOffer.merchant.found

C3_HalfSellerIsSuccess ==
  (Called("seller") /\ ExactlyOneSellerNode)
  => (/\ Returned("seller")
      /\ ~SellerOffer.fulfiller.found => ~result["seller"].val.ships_from.some
      /\ ~SellerOffer.merchant.found => ~result["seller"].val.sold_by.some
      /\ Diagnostics("parse_product_seller") = <<>>)

\* ------------------------------------------------------------------------
\* C4: with neither a ships-from nor a sold-by node, the seller probe returns
\* None and logs exactly one MissingElement diagnostic, whether or not the
\* containers exist.
\* ------------------------------------------------------------------------
NeitherSellerNode == ~SellerOffer.fulfiller.found /\ ~SellerOffer.merchant.found

C4_NoSellerNodeIsOneDiagnostic ==
  (Called("seller") /\ NeitherSellerNode)
  => (Absent("seller") /\ OneDiagnostic("seller", "MissingElement"))

\* ------------------------------------------------------------------------
\* C5: for a price text made of an optional currency symbol, digits, commas
\* and at most one period, the price probe returns the number read from the
\* text with the symbol and all commas removed; "$1,234.56" gives 1234.56.
\* ------------------------------------------------------------------------
WellFormedPrice(t) ==
  LET body == IF t # <<>> /\ t[1] = "$" THEN Tail(t) ELSE t
  IN  /\ \A i \in 1..Len(body) : IsPriceChar(body[i])
      /\ \E i \in 1..Len(body) : IsDigit(body[i])
      /\ Count(body, ".") <= 1

WithoutSymbolAndCommas(t) == SelectSeq(t, LAMBDA c : c # "$" /\ c # ",")

C5_WellFormedPriceIsParsed ==
  (Called("price") /\ PriceNodeFound /\ WellFormedPrice(PriceText))
  => (/\ Returned("price")
      /\ result["price"].val = PyFloat(WithoutSymbolAndCommas(PriceText)).val
      /\ PriceText = PriceExample
           => result["price"].val = [inf |-> FALSE, num |-> 123456, den |-> 100])

C5_Witness ==
  /\ Called("price")
  /\ PriceNodeFound
  /\ PriceText = PriceExample
  /\ Returned("price")
  /\ result["price"].val.num = 123456

\* ------------------------------------------------------------------------
\* C6: with the price container and its text node present and no digit in
\* the text, the price probe returns None and records a MalformedValue
\* diagnostic, not the MissingElement one of an absent container or node.
\* ------------------------------------------------------------------------
NoDigit(t) == \A i \in 1..Len(t) : ~IsDigit(t[i])

C6_DigitlessPriceIsMalformed ==
  (Called("price") /\ PriceNodeFound /\ NoDigit(PriceText))
  => (Absent("price") /\ OneDiagnostic("price", "MalformedValue"))

\* ------------------------------------------------------------------------
\* C7: for the title, price, image and seller probes, when the probe's
\* container is absent the probe returns None, logs exactly one
\* MissingElement diagnostic and does not raise, whatever else is in the
\* document.
\* ------------------------------------------------------------------------
ContainerProbes == {"title", "price", "image", "seller"}

C7_MissingContainerIsOneDiagnostic ==
  \A f \in ContainerProbes :
    (Called(f) /\ ~ContainerOf(f).found)
    => (Absent(f) /\ OneDiagnostic(f, "MissingElement"))

C7_Witness ==
  /\ \A f \in ContainerProbes : Called(f) /\ ~ContainerOf(f).found /\ Absent(f)
  /\ ContainerOf("coupon").found
  /\ Len(log) = 4

\* ------------------------------------------------------------------------
\* C8: a price the probe returns is non-negative and finite and comes from a
\* run with at most one period.
\* ------------------------------------------------------------------------
C8_PriceIsFiniteNonNegative ==
  Returned("price")
  => (/\ ~result["price"].val.inf
      /\ result["price"].val.num >= 0
      /\ Count(PriceSearch(PriceText).group, ".") <= 1)

\* ------------------------------------------------------------------------
\* C9: the fixed-amount pattern is tried before the percentage pattern: a
\* message with both a currency amount and a percentage is classified fixed
\* wherever they stand, a message with only a percentage is classified
\* percentage; "Save $10 on this item" is fixed 10 and "15% off select
\* items" is percentage 15.
\* ------------------------------------------------------------------------
C9_FixedBeforePercentage ==
  (Called("coupon") /\ ContainerOf("coupon").found)
  => (/\ (ContainsFixed(CouponMessage) /\ ContainsPercent(CouponMessage))
           => (Returned("coupon") /\ result["coupon"].val.type = "fixed")
      /\ (~ContainsFixed(CouponMessage) /\ ContainsPercent(CouponMessage))
           => (Returned("coupon") /\ result["coupon"].val.type = "percentage")
      /\ CouponMessage = SaveTen
           => result["coupon"] =
                Ret([type |-> "fixed",
                     amount |-> [inf |-> FALSE, num |-> 10, den |-> 1]])
      /\ CouponMessage = FifteenPercent
           => result["coupon"] =
                Ret([type |-> "percentage",
                     amount |-> [inf |-> FALSE, num |-> 15, den |-> 1]]))

\* the percentage stands before the currency amount and the coupon is fixed
C9_Witness ==
  /\ Called("coupon")
  /\ CouponMessage = <<"1", "%", "$", "1">>
  /\ Returned("coupon")
  /\ result["coupon"].val.type = "fixed"

\* ------------------------------------------------------------------------
\* C10: a coupon the probe returns is in range: a fixed amount is above 0, a
\* percentage is above 0 and at most 100.
\* ------------------------------------------------------------------------
C10_CouponInRange ==
  Returned("coupon")
  => LET c == result["coupon"].val
     IN  /\ c.type \in {"fixed", "percentage"}
         /\ ~c.amount.inf
         /\ c.amount.num > 0
         /\ c.type = "percentage" => c.amount.num <= 100 * c.amount.den

\* ------------------------------------------------------------------------
\* C11: the amount of a classified coupon is the number the price rule
\* (longest run of digits, commas and periods, commas removed, float) reads
\* from the same number text; "$1,000 off" is 1000.
\* ------------------------------------------------------------------------
\* the number text of the message: the run of digits, commas and periods that
\* follows the currency symbol, or that ends at the percent sign
AmountText(m) ==
  IF ContainsFixed(m)
  THEN LET i == Min({k \in 1..Len(m) : m[k] = "$" /\ IsDigit(At(m, k + 1))})
       IN  PriceSearch(SubSeq(m, i + 1, Len(m))).group
  ELSE LET i == Min({k \in 1..Len(m) : PercentGroupEnd(m, k) # 0})
           e == PercentGroupEnd(m, i)
           s == Min({k \in 1..e : \A j \in k..e : IsPriceChar(m[j])})
       IN  SubSeq(m, s, e)

C11_CouponAmountByPriceRule ==
  Returned("coupon")
  => LET p == PyFloat(PriceStr(AmountText(CouponMessage)))
     IN  p.ok => result["coupon"].val.amount = p.val

\* ------------------------------------------------------------------------
\* C12: with a coupon container, the classifier gets the text of the label
\* span when there is one and the text of the whole container only when there
\* is none; with a label, the text elsewhere in the container has no effect.
\* ------------------------------------------------------------------------
WithoutOtherText(doc) ==
  [doc EXCEPT !.promoPriceBlockMessage_feature_div.strings = <<>>]

C12_LabelBeforeContainerText ==
  (Called("coupon") /\ ContainerOf("coupon").found)
  => LET c == ContainerOf("coupon")
     IN  /\ c.label.found
           => /\ classified = <<get_text(c.label.strings)>>
              /\ result["coupon"] =
                   parse_product_coupon(WithoutOtherText(soup), user_product_name).ret
         /\ ~c.label.found => classified = <<get_text(c.strings)>>
         /\ c = Coupon(Node(<<FifteenPercent>>), <<SaveTen>>)
           => result["coupon"].val.type = "percentage"

\* a percentage in the label, a fixed amount elsewhere in the container
C12_Witness ==
  /\ Called("coupon")
  /\ ContainerOf("coupon") = Coupon(Node(<<FifteenPercent>>), <<SaveTen>>)
  /\ classified = <<FifteenPercent>>
  /\ Returned("coupon")

\* ------------------------------------------------------------------------
\* C13: without a coupon container, coupon extraction returns None, logs one
\* informational record and no warning or error, and the classifier is not
\* invoked.
\* ------------------------------------------------------------------------
C13_NoCouponIsInformational ==
  (Called("coupon") /\ ~ContainerOf("coupon").found)
  => /\ Absent("coupon")
     /\ Diagnostics("parse_product_coupon") = <<>>
     /\ Len(log) = 1 /\ log[1].level = "INFO"
     /\ classified = <<>>

C13_Witness ==
  /\ Called("coupon")
  /\ ~ContainerOf("coupon").found
  /\ Absent("coupon")
  /\ Len(log) = 1

\* ------------------------------------------------------------------------
\* C14: the probes are independent: whatever probes ran before and however
\* they ended, a probe returns what it returns when run alone on the
\* document, and no probe changes the document or the product name.
\* ------------------------------------------------------------------------
\* the outcome of the probe of a field on a parser nothing else has touched
OutcomeAlone(field, doc, name) ==
  CASE field = "title"  -> parse_product_title(doc, name).ret
    [] field = "price"  -> parse_product_price(doc, name).ret
    [] field = "image"  -> parse_product_image(doc, name).ret
    [] field = "seller" -> parse_product_seller(doc).ret
    [] field = "coupon" -> parse_product_coupon(doc, name).ret

SameDocumentAgain == earlier.present /\ earlier.soup = soup

BothCalled(f) == Called(f) /\ earlier.result[f].tag # "notcalled"

WithoutArgs(rec) ==
  [level |-> rec.level, function |-> rec.function, msg |-> rec.msg,
   kind |-> DiagnosticKind(rec)]

KindsOf(logs) == [i \in 1..Len(logs) |-> WithoutArgs(logs[i])]

C17_NameOnlyInMessages ==
  (SameDocumentAgain /\ earlier.name # user_product_name)
  => \A f \in Fields :
       BothCalled(f)
       => (result[f] = earlier.result[f]
           /\ KindsOf(LogsOf(f)) = KindsOf(earlier.logs[f]))

\* both runs missed the title and logged it, one with a name and one without
C17_Witness ==
  /\ SameDocumentAgain
  /\ earlier.name # user_product_name
  /\ BothCalled("title")
  /\ Absent("title")
  /\ LogsOf("title") # earlier.logs["title"]

\* ------------------------------------------------------------------------
\* make_request (config/requester.py)
\* ------------------------------------------------------------------------
\* no parser instance is at work
ParserIdle ==
  /\ soup = EmptyDocument
  /\ user_product_name = "None"
  /\ result = [f \in Fields |-> NotCalled]
  /\ log = <<>>
  /\ classified = <<>>
  /\ earlier = NoEarlier
  /\ parses = 1

parserVars == <<soup, user_product_name, result, log, classified, earlier, parses>>

Urls == {"http://a", "http://b"}

DefaultUserAgent == "Mozilla/5.0"

OptLists(items) ==
  {NoList} \cup {List(l) : l \in SeqsUpTo(items, 2)}

\* status codes a server may answer with
Statuses == {200, 204, 304, 404, 500, 503}

\* the subclasses of RequestException that requests.get raises
GetExceptions == {"ConnectionError", "Timeout", "TooManyRedirects", "MissingSchema"}

\* truth value of an Optional[List]
Truthy(l) == l.some /\ l.list # <<>>

\* random.choice(seq)
Choices(l) == {l.list[i] : i \in 1..Len(l.list)}

\* Response.raise_for_status(): HTTPError for a 4xx or 5xx status
RaisesForStatus(status) == 400 <= status /\ status < 600

InitRequest ==
  /\ ParserIdle
  /\ session = IdleSession
  /\ engine = NoEngine
  /\ created = 0
  /\ threads = [t \in Threads |-> IdleThread]
  /\ StartupIdle
  /\ \E url \in Urls, ps \in OptLists({"p1", "p2"}), uas \in OptLists({"ua1", "ua2"}) :
       request = [IdleRequest EXCEPT !.pc = "called", !.url = url,
                                     !.proxy_servers = ps, !.user_agents = uas]

RequestFailed(url, err) ==
  LogRecord("ERROR", "make_request", "Request to %s failed: %s", <<url, err>>)

\* the whole of make_request: the choice of headers and proxy, the GET, the
\* status check and the except clause
MakeRequest ==
  /\ request.pc = "called"
  /\ \E ua \in (IF Truthy(request.user_agents) THEN Choices(request.user_agents)
                ELSE {DefaultUserAgent}),
        proxy \in (IF Truthy(request.proxy_servers) THEN Choices(request.proxy_servers)
                   ELSE {""}) :
       LET chosen == [request EXCEPT !.pc = "returned", !.user_agent = ua,
                                     !.proxy = proxy]
       IN  \* get(...) raises a RequestException
           \/ \E err \in GetExceptions :
                request' = [chosen EXCEPT !.caught = err,
                                          !.logs = <<RequestFailed(request.url, err)>>]
           \* get(...) returns a response
           \/ \E status \in Statuses :
                request' =
                  IF RaisesForStatus(status)
                  THEN [chosen EXCEPT !.got = Response(status), !.caught = "HTTPError",
                                      !.logs = <<RequestFailed(request.url, "HTTPError")>>]
                  ELSE [chosen EXCEPT !.got = Response(status), !.ret = Response(status)]
  /\ UNCHANGED <<parserVars, startupVars, session, engine, created, threads>>

NextRequest == MakeRequest

SpecRequest == InitRequest /\ [][NextRequest]_vars

\* ------------------------------------------------------------------------
\* C18: make_request returns the response of a successful fetch and None on
\* any request failure or non-2xx status; nothing is raised to the caller.
\* ------------------------------------------------------------------------
Is2xx(status) == 200 <= status /\ status < 300

C18_ResponseOnlyOn2xx ==
  request.pc = "returned"
  => IF request.got.some /\ Is2xx(request.got.status)
     THEN request.ret = request.got
     ELSE ~request.ret.some

\* ------------------------------------------------------------------------
\* get_engine (config/db.py), one step per read or write of _engine
\* ------------------------------------------------------------------------
\* "if _engine is None": the thread reads the global
TestEngine(t) ==
  /\ threads[t].pc = "idle"
  /\ Len(threads[t].returned) < MaxCalls
  /\ threads' = [threads EXCEPT ![t].pc = IF engine = NoEngine THEN "create"
                                          ELSE "return"]
  /\ UNCHANGED <<parserVars, startupVars, request, session, engine, created>>

\* create_engine(...): a new Engine object
CreateEngine(t) ==
  /\ threads[t].pc = "create"
  /\ created' = created + 1
  /\ threads' = [threads EXCEPT ![t].pc = "assign", ![t].new = created + 1]
  /\ UNCHANGED <<parserVars, startupVars, request, session, engine>>

\* "_engine = ...": the thread writes the global
AssignEngine(t) ==
  /\ threads[t].pc = "assign"
  /\ engine' = threads[t].new
  /\ threads' = [threads EXCEPT ![t].pc = "return"]
  /\ UNCHANGED <<parserVars, startupVars, request, session, created>>

\* "return _engine": the thread reads the global again
ReturnEngine(t) ==
  /\ threads[t].pc = "return"
  /\ threads' = [threads EXCEPT ![t].pc = "idle",
                                ![t].returned = Append(threads[t].returned, engine)]
  /\ UNCHANGED <<parserVars, startupVars, request, session, engine, created>>

InitEngine ==
  /\ ParserIdle
  /\ request = IdleRequest
  /\ session = IdleSession
  /\ engine = NoEngine
  /\ created = 0
  /\ threads = [t \in Threads |-> IdleThread]
  /\ StartupIdle

NextEngine ==
  \E t \in Threads :
    \/ TestEngine(t)
    \/ CreateEngine(t)
    \/ AssignEngine(t)
    \/ ReturnEngine(t)

SpecEngine == InitEngine /\ [][NextEngine]_vars

\* ------------------------------------------------------------------------
\* get_db_session and get_session (config/db.py)
\* ------------------------------------------------------------------------
\* what the body of a with-block may call on the session
BodyOps == {"add", "commit", "refresh"}

\* a call of a Session method, by the context manager or by the with-body
SessionCall(by, op) == [by |-> by, op |-> op]

\* exceptions that may leave the with-body: KeyboardInterrupt is a
\* BaseException that "except Exception" does not catch
BodyExceptions == {"ValueError", "KeyboardInterrupt"}

IsException(e) == e # "KeyboardInterrupt"

\* lines 98-101: get_engine(), Session(engine), yield session.  get_session
\* enters the same context manager.
EnterSession ==
  /\ session.pc = "idle"
  /\ engine' = IF engine = NoEngine THEN created + 1 ELSE engine
  /\ created' = IF engine = NoEngine THEN created + 1 ELSE created
  /\ session' = [session EXCEPT !.pc = "open"]
  /\ UNCHANGED <<parserVars, startupVars, request, threads>>

\* the with-body uses the session
BodyCall ==
  /\ session.pc = "open"
  /\ Len(session.calls) < MaxBodyOps
  /\ \E op \in BodyOps :
       session' = [session EXCEPT !.calls = Append(session.calls, SessionCall("body", op))]
  /\ UNCHANGED <<parserVars, startupVars, request, engine, created, threads>>

\* the with-body ends normally: lines 105-106
ExitSession ==
  /\ session.pc = "open"
  /\ session' = [session EXCEPT !.pc = "closed",
                                !.calls = session.calls \o
                                  <<SessionCall("manager", "close")>>]
  /\ UNCHANGED <<parserVars, startupVars, request, engine, created, threads>>

\* the with-body raises: lines 102-106
ExitSessionRaising ==
  /\ session.pc = "open"
  /\ \E e \in BodyExceptions :
       session' = [session EXCEPT
                     !.pc = "closed",
                     !.raised = e,
                     !.calls = session.calls \o
                       (IF IsException(e) THEN <<SessionCall("manager", "rollback")>>
                        ELSE <<>>) \o
                       <<SessionCall("manager", "close")>>]
  /\ UNCHANGED <<parserVars, startupVars, request, engine, created, threads>>

InitSession == InitEngine

NextSession ==
  \/ EnterSession
  \/ BodyCall
  \/ ExitSession
  \/ ExitSessionRaising

SpecSession == InitSession /\ [][NextSession]_vars

\* ------------------------------------------------------------------------
\* C19: after the with-block the session is closed exactly once; on a normal
\* exit the manager committed and then closed, on an exception it rolled
\* back, re-raised and closed.
\* ------------------------------------------------------------------------
ManagerCalls ==
  LET own == SelectSeq(session.calls, LAMBDA c : c.by = "manager")
  IN  [i \in 1..Len(own) |-> own[i].op]

C19_SessionLifecycle ==
  session.pc = "closed"
  => IF session.raised = ""
     THEN ManagerCalls = <<"commit", "close">>
     ELSE IF IsException(session.raised)
     THEN ManagerCalls = <<"rollback", "close">>
     ELSE Count(ManagerCalls, "close") = 1

\* ------------------------------------------------------------------------
\* C20: over any interleaving of get_engine calls create_engine is invoked at
\* most once and every call returns the same engine.
\* ------------------------------------------------------------------------
C20_OneEngine ==
  /\ created <= 1
  /\ \A t, u \in Threads :
       \A i \in 1..Len(threads[t].returned), j \in 1..Len(threads[u].returned) :
         threads[t].returned[i] = threads[u].returned[j]

\* ------------------------------------------------------------------------
\* C16: on empty HTML every field is absent, nothing is raised and one
\* diagnostic is recorded per attempted field.
\* ------------------------------------------------------------------------
\* as stated: each of the five fields has its one diagnostic
C16_EmptyInputOneDiagnosticPerField ==
  soup = EmptyDocument
  => \A f \in Fields :
       Called(f) => (Absent(f) /\ Len(Diagnostics(ProbeOf(f))) = 1)

\* as the code has it: one MissingElement diagnostic for each of title,
\* price, image and seller, and for the coupon one informational record and
\* no diagnostic
C16_EmptyInputFourDiagnostics ==
  soup = EmptyDocument
  => \A f \in Fields :
       Called(f)
       => /\ Absent(f)
          /\ f # "coupon" => OneDiagnostic(f, "MissingElement")
          /\ f = "coupon" => /\ Diagnostics(ProbeOf(f)) = <<>>
                             /\ Len(LogsOf(f)) = 1
                             /\ LogsOf(f)[1].level = "INFO"

C16_Witness ==
  /\ soup = EmptyDocument
  /\ \A f \in Fields : Called(f) /\ Absent(f)
  /\ Len(log) = 5

\* ------------------------------------------------------------------------
\* C21: with the buy box and the offer features present, a ships-from or
\* sold-by node that holds no text span counts as an absent half: the seller
\* probe does not raise, and a seller it returns leaves that key unpopulated.
\* ------------------------------------------------------------------------
MissingValueSpan(element) == element.found /\ ~element.span.found

SomeValueSpanMissing ==
  /\ ContainerOf("seller").found
  /\ SellerOffer.found
  /\ \/ MissingValueSpan(SellerOffer.fulfiller)
     \/ MissingValueSpan(SellerOffer.merchant)

C21_MissingValueSpanIsAbsent ==
  (Called("seller") /\ SomeValueSpanMissing)
  => /\ ~Raised("seller")
     /\ Returned("seller")
        => /\ MissingValueSpan(SellerOffer.fulfiller)
              => ~result["seller"].val.ships_from.some
           /\ MissingValueSpan(SellerOffer.merchant)
              => ~result["seller"].val.sold_by.some

\* ------------------------------------------------------------------------
\* lifespan (main.py): startup seeding of the admin user
\* ------------------------------------------------------------------------
\* application processes started one after the other on the same database
MaxStartups == 3

\* values of ADMIN_USER and ADMIN_PASSWORD in the environment of a process;
\* "ADMIN_USER=" in the .env file gives the empty string
AdminUsers == {"admin@email.com", "root@email.com", ""}

AdminPasswords == {"securepassword123", "changed"}

\* Settings(): fields not in the environment keep their defaults
Settings(admin_user, admin_password) ==
  [DefaultSettings EXCEPT !.ADMIN_USER = admin_user,
                          !.ADMIN_PASSWORD = admin_password]

UserRole == {"ADMIN", "USER"}

\* a row of users_table: id is a fresh uuid4, created_at and updated_at the
\* time of construction
UsersTable(id, username, password, role, now) ==
  [id |-> id, username |-> username, password |-> password, role |-> role,
   created_at |-> now, updated_at |-> now]

NoRow == [some |-> FALSE, row |-> UsersTable(0, "", "", "USER", 0)]

\* select(model).where(field == value), result.first()
get_by_field(rows, field_name, field_value) ==
  LET Matches(r) == r[field_name] = field_value
      matching == SelectSeq(rows, Matches)
  IN  IF matching = <<>> THEN NoRow ELSE [some |-> TRUE, row |-> Head(matching)]

\* session.commit() of one added row: the unique index on username refuses
\* a second row of the same username
commit(rows, instance) ==
  IF \E i \in 1..Len(rows) : rows[i].username = instance.username
  THEN [rows |-> rows, raised |-> "IntegrityError"]
  ELSE [rows |-> Append(rows, instance), raised |-> ""]

LifespanInfo(msg, args) == LogRecord("INFO", "lifespan", msg, args)

\* a seed that adds the row and leaves the commit to the context manager,
\* whose normal exit only closes the session
seed_uncommitted(rows, admin_user) ==
  [rows |-> rows, raised |-> "", calls |-> <<SessionCall("body", "add")>>]

\* lines 49-56: the admin row is built, added, committed and refreshed; a
\* commit that raises leaves the with-body before the refresh
seed(rows, admin_user) ==
  LET committed == commit(rows, admin_user)
  IN  [rows |-> committed.rows,
       raised |-> committed.raised,
       calls |-> <<SessionCall("body", "add"), SessionCall("body", "commit")>> \o
                 (IF committed.raised = "" THEN <<SessionCall("body", "refresh")>>
                  ELSE <<>>)]

\* the startup half of lifespan in a new process, up to the yield
Startup(admin_user, admin_password) ==
  /\ app.pc # "running"
  /\ app.startups < MaxStartups
  /\ LET settings == Settings(admin_user, admin_password)
         now == app.startups + 1
         users == database.users_table
         admin_exists == get_by_field(users, "username", settings.ADMIN_USER)
         new_admin == UsersTable(Len(users) + 1, settings.ADMIN_USER,
                                 settings.ADMIN_PASSWORD, "ADMIN", now)
         seeded == IF admin_exists.some
                   THEN [rows |-> users, raised |-> "", calls |-> <<>>]
                   ELSE seed(users, new_admin)
     IN  /\ SETTINGS' = settings
         \* create_db_and_tables: create_all keeps the tables that exist
         /\ database' = [tables |-> TRUE, users_table |-> seeded.rows]
         \* get_engine in create_db_and_tables creates the engine of the process
         /\ engine' = 1
         /\ created' = 1
         /\ session' = [pc |-> "closed",
                        raised |-> seeded.raised,
                        calls |-> seeded.calls \o
                          (IF seeded.raised # ""
                           THEN <<SessionCall("manager", "rollback")>>
                           ELSE <<>>) \o
                          <<SessionCall("manager", "close")>>]
         /\ app' = [pc |-> IF seeded.raised = "" THEN "running" ELSE "failed",
                    startups |-> now,
                    logs |->
                      <<LifespanInfo("Application starting in %s mode", <<settings.ENV>>),
                        LifespanInfo("Initializing database tables", NoArgs),
                        LifespanInfo("Checking for initial data seeding", NoArgs),
                        IF admin_exists.some
                        THEN LifespanInfo("Admin user already exists, skipping creation",
                                          NoArgs)
                        ELSE LifespanInfo("Creating initial admin user: %s",
                                          <<settings.ADMIN_USER>>)>>]
  /\ UNCHANGED <<parserVars, request, threads>>

\* the shutdown half of lifespan; the process and its engine end
Shutdown ==
  /\ app.pc = "running"
  /\ app' = [app EXCEPT !.pc = "stopped",
                        !.logs = Append(app.logs,
                                   LifespanInfo("Application shutting down", NoArgs))]
  /\ engine' = NoEngine
  /\ created' = 0
  /\ session' = IdleSession
  /\ UNCHANGED <<parserVars, request, threads, SETTINGS, database>>

InitStartup ==
  /\ ParserIdle
  /\ BeyondParserIdle

NextStartup ==
  \/ \E admin_user \in AdminUsers, admin_password \in AdminPasswords :
       Startup(admin_user, admin_password)
  \/ Shutdown

SpecStartup == InitStartup /\ [][NextStartup]_vars

\* ------------------------------------------------------------------------
\* C22: every startup leaves exactly one row whose username is the configured
\* ADMIN_USER, and that row has role ADMIN; a startup that finds such a row
\* inserts nothing; no step changes or removes a row that exists.
\* ------------------------------------------------------------------------
AdminRows(rows, username) ==
  LET IsAdminUser(r) == r.username = username
  IN  SelectSeq(rows, IsAdminUser)

StartedUp == app'.startups = app.startups + 1

RowsKept ==
  /\ Len(database'.users_table) >= Len(database.users_table)
  /\ \A i \in 1..Len(database.users_table) :
       database'.users_table[i] = database.users_table[i]

C22_AdminSeedingIsIdempotent ==
  [][/\ RowsKept
     /\ StartedUp
        => /\ Len(AdminRows(database'.users_table, SETTINGS'.ADMIN_USER)) = 1
           /\ AdminRows(database'.users_table, SETTINGS'.ADMIN_USER)[1].role = "ADMIN"
           /\ AdminRows(database.users_table, SETTINGS'.ADMIN_USER) # <<>>
              => database'.users_table = database.users_table]_vars

\* a third startup that finds the admin row of the first one, with another
\* password configured and the row of another admin seeded in between
C22_Witness ==
  /\ app.pc = "running"
  /\ app.startups = 3
  /\ app.logs[4].msg = "Admin user already exists, skipping creation"
  /\ Len(database.users_table) = 2
  /\ database.users_table[1].username = SETTINGS.ADMIN_USER
  /\ database.users_table[1].password # SETTINGS.ADMIN_PASSWORD

====
